---- MODULE Spec2Model ----
(***************************************************************************)
(* Turn orchestration of voice_chat_app.py: record -> transcribe ->        *)
(* generate -> synthesize, the session state it leaves behind, and the     *)
(* lifecycle of the temporary audio files.                                 *)
(*                                                                         *)
(* Text is a sequence of one-character strings, so that lower(),           *)
(* startswith() and `in` are computed on characters as Python does.        *)
(***************************************************************************)
EXTENDS Integers, Sequences, FiniteSets, TLC

VARIABLES
    pc,                \* position of main() inside the Start Recording handler
    transcribed_text,  \* st.session_state.transcribed_text
    llm_response,      \* st.session_state.llm_response
    audio_file,        \* st.session_state.audio_file (None: key absent)
    disk,              \* temporary files that exist
    api_key,           \* widget values read by the run that handles the click
    use_gemini_api,
    model_choice,
    tts_method,
    turn,              \* number of Start Recording clicks so far
    calls,             \* functions invoked by the current turn, in order
    unlink_log,        \* every os.unlink call made, in order
    reply_turn,        \* turn that wrote llm_response (0: none)
    audio_turn,        \* turn that wrote audio_file (0: none)
    capture,           \* how record_speech ended in the current turn
    gen,               \* how get_gemini_response ended in the current turn
    synth,             \* how text-to-speech ended in the current turn
    outcome            \* how the last handler ended

vars ==
    <<pc, transcribed_text, llm_response, audio_file, disk, api_key,
      use_gemini_api, model_choice, tts_method, turn, calls, unlink_log,
      reply_turn, audio_turn, capture, gen, synth, outcome>>

\* ---------------------------------------------------------------- bounds
MaxTurns ==
    3

MaxFrags ==
    3

\* ------------------------------------------------------- string literals
MsgTimeout ==
    <<"T", "i", "m", "e", "o", "u", "t", ":", " ", "N", "o", " ", "s", "p", "e", "e", "c", "h", " ", "d", "e", "t", "e", "c", "t", "e", "d">>

MsgCouldNot ==
    <<"C", "o", "u", "l", "d", " ", "n", "o", "t", " ", "u", "n", "d", "e", "r", "s", "t", "a", "n", "d", " ", "t", "h", "e", " ", "a", "u", "d", "i", "o">>

MsgRequestErrorPrefix ==
    <<"E", "r", "r", "o", "r", " ", "w", "i", "t", "h", " ", "s", "p", "e", "e", "c", "h", " ", "r", "e", "c", "o", "g", "n", "i", "t", "i", "o", "n", " ", "s", "e", "r", "v", "i", "c", "e", ":", " ">>

ReplyHello ==
    <<"H", "e", "l", "l", "o", "!", " ", "H", "o", "w", " ", "c", "a", "n", " ", "I", " ", "h", "e", "l", "p", " ", "y", "o", "u", " ", "t", "o", "d", "a", "y", "?">>

ReplyWeather ==
    <<"I", " ", "d", "o", "n", "'", "t", " ", "h", "a", "v", "e", " ", "a", "c", "c", "e", "s", "s", " ", "t", "o", " ", "c", "u", "r", "r", "e", "n", "t", " ", "w", "e", "a", "t", "h", "e", "r", " ", "d", "a", "t", "a", ",", " ", "b", "u", "t", " ", "I", " ", "h", "o", "p", "e", " ", "i", "t", "'", "s", " ", "n", "i", "c", "e", " ", "w", "h", "e", "r", "e", " ", "y", "o", "u", " ", "a", "r", "e", "!">>

ReplyTime ==
    <<"I", " ", "d", "o", "n", "'", "t", " ", "h", "a", "v", "e", " ", "a", "c", "c", "e", "s", "s", " ", "t", "o", " ", "r", "e", "a", "l", "-", "t", "i", "m", "e", " ", "d", "a", "t", "a", ",", " ", "b", "u", "t", " ", "y", "o", "u", " ", "c", "a", "n", " ", "c", "h", "e", "c", "k", " ", "y", "o", "u", "r", " ", "d", "e", "v", "i", "c", "e", "'", "s", " ", "c", "l", "o", "c", "k", ".">>

ReplyDefaultPrefix ==
    <<"I", " ", "h", "e", "a", "r", "d", " ", "y", "o", "u", " ", "s", "a", "y", ":", " ", "'">>

ReplyDefaultSuffix ==
    <<"'", ".", " ", "H", "e", "l", "l", "o", ",", " ", "t", "h", "i", "s", " ", "i", "s", " ", "a", " ", "s", "a", "m", "p", "l", "e", " ", "r", "e", "s", "p", "o", "n", "s", "e", " ", "f", "r", "o", "m", " ", "G", "e", "m", "i", "n", "i", " ", "A", "I", " ", "p", "l", "a", "c", "e", "h", "o", "l", "d", "e", "r", ".">>

MsgGeminiErrorPrefix ==
    <<"E", "r", "r", "o", "r", " ", "c", "a", "l", "l", "i", "n", "g", " ", "G", "e", "m", "i", "n", "i", " ", "A", "P", "I", ":", " ">>

KwHello ==
    <<"h", "e", "l", "l", "o">>

KwHi ==
    <<"h", "i">>

KwWeather ==
    <<"w", "e", "a", "t", "h", "e", "r">>

KwTime ==
    <<"t", "i", "m", "e">>

PfxTimeout ==
    <<"T", "i", "m", "e", "o", "u", "t">>

PfxCouldNot ==
    <<"C", "o", "u", "l", "d", " ", "n", "o", "t">>

PfxError ==
    <<"E", "r", "r", "o", "r">>

EmptyText ==
    << >>

None ==
    << >>

GoogleTTS ==
    "Google TTS (gTTS) - Online"

Pyttsx3TTS ==
    "pyttsx3 - Offline"

DefaultModel ==
    "gemini-pro"

\* ------------------------------------------------ inputs of the environment
TxtHelloThere ==
    <<"H", "e", "l", "l", "o", " ", "t", "h", "e", "r", "e">>

TxtJoke ==
    <<"T", "e", "l", "l", " ", "m", "e", " ", "a", " ", "j", "o", "k", "e">>

TxtError404 ==
    <<"E", "r", "r", "o", "r", " ", "4", "0", "4">>

TxtTimeoutQ ==
    <<"T", "i", "m", "e", "o", "u", "t", " ", "s", "e", "t", "t", "i", "n", "g", "s">>

TxtCouldNotQ ==
    <<"C", "o", "u", "l", "d", " ", "n", "o", "t", " ", "s", "l", "e", "e", "p">>

DetailBadRequest ==
    <<"r", "e", "c", "o", "g", "n", "i", "t", "i", "o", "n", " ", "r", "e", "q", "u", "e", "s", "t", " ", "f", "a", "i", "l", "e", "d">>

DetailQuota ==
    <<"4", "2", "9", " ", "q", "u", "o", "t", "a", " ", "e", "x", "c", "e", "e", "d", "e", "d">>

LiveAnswer ==
    <<"S", "u", "r", "e", ".">>

FragHello ==
    <<"h", "e", "l", "l", "o">>

FragWEATHER ==
    <<"W", "E", "A", "T", "H", "E", "R">>

FragTime ==
    <<"T", "i", "m", "e">>

FragJoke ==
    <<"j", "o", "k", "e">>

\* texts recognize_google may hand back as a successful recognition
RecognizedTexts ==
    {EmptyText, TxtHelloThere, TxtJoke, TxtError404, TxtTimeoutQ, TxtCouldNotQ}

\* ways recognizer.listen / recognize_google / the microphone can end
CaptureOutcomes ==
    [kind : {"recognized"}, text : RecognizedTexts]
    \cup [kind : {"WaitTimeoutError", "UnknownValueError", "OSError"}, text : {EmptyText}]
    \cup [kind : {"RequestError"}, text : {DetailBadRequest}]

\* ways model.generate_content can end
ServiceOutcomes ==
    [kind : {"text"}, text : {LiveAnswer}]
    \cup [kind : {"exception"}, text : {DetailQuota}]

\* ways a text-to-speech backend can end: before or after the temporary
\* file has been created
SynthOutcomes ==
    {"ok", "raise_before_file", "raise_after_file"}

ApiKeys ==
    {EmptyText, <<"k">>}

ModelChoices ==
    {"gemini-pro", "gemini-pro-vision", "gemini-2.0-flash"}

TtsMethods ==
    {GoogleTTS, Pyttsx3TTS}

Fragments ==
    {FragHello, FragWEATHER, FragTime, FragJoke,
     <<"H">>, <<"I">>, <<"h">>, <<"i">>, <<"t">>, <<" ">>}

RECURSIVE TextsOf(_)
TextsOf(n) ==
    IF n = 0 THEN {EmptyText}
    ELSE LET shorter == TextsOf(n - 1)
         IN  shorter \cup {s \o f : s \in shorter, f \in Fragments}

OfflineTexts ==
    TextsOf(MaxFrags)

\* ------------------------------------------------------ string functions
UpperToLower ==
    ("A" :> "a") @@ ("B" :> "b") @@ ("C" :> "c") @@ ("D" :> "d") @@ ("E" :> "e") @@ ("F" :> "f") @@ ("G" :> "g") @@ ("H" :> "h") @@ ("I" :> "i") @@ ("J" :> "j") @@ ("K" :> "k") @@ ("L" :> "l") @@ ("M" :> "m") @@ ("N" :> "n") @@ ("O" :> "o") @@ ("P" :> "p") @@ ("Q" :> "q") @@ ("R" :> "r") @@ ("S" :> "s") @@ ("T" :> "t") @@ ("U" :> "u") @@ ("V" :> "v") @@ ("W" :> "w") @@ ("X" :> "x") @@ ("Y" :> "y") @@ ("Z" :> "z")

\* str.lower()
Lower(s) ==
    [i \in 1..Len(s) |-> IF s[i] \in DOMAIN UpperToLower THEN UpperToLower[s[i]] ELSE s[i]]

\* sub in s
Contains(s, sub) ==
    \E i \in 0..(Len(s) - Len(sub)) : SubSeq(s, i + 1, i + Len(sub)) = sub

\* s.startswith(p)
StartsWith(s, p) ==
    /\ Len(s) >= Len(p)
    /\ SubSeq(s, 1, Len(p)) = p

\* s.startswith(("Timeout", "Could not", "Error"))
StartsWithFailure(s) ==
    \/ StartsWith(s, PfxTimeout)
    \/ StartsWith(s, PfxCouldNot)
    \/ StartsWith(s, PfxError)

\* ------------------------------------------------------------ functions
\* record_speech(): the text returned, or the exception that leaves it
record_speech(o) ==
    CASE o.kind = "recognized"        -> [raised |-> FALSE, value |-> o.text]
      [] o.kind = "WaitTimeoutError"  -> [raised |-> FALSE, value |-> MsgTimeout]
      [] o.kind = "UnknownValueError" -> [raised |-> FALSE, value |-> MsgCouldNot]
      [] o.kind = "RequestError"      -> [raised |-> FALSE, value |-> MsgRequestErrorPrefix \o o.text]
      [] OTHER                        -> [raised |-> TRUE,  value |-> EmptyText]

\* the branch of get_gemini_response taken
UsesPlaceholder(key, use_api) ==
    (~use_api) \/ key = EmptyText

\* variant: the time rule is tried before the weather rule
PlaceholderResponse_TimeFirst(text) ==
    LET text_lower == Lower(text)
    IN  IF Contains(text_lower, KwHello) \/ Contains(text_lower, KwHi) THEN ReplyHello
        ELSE IF Contains(text_lower, KwTime) THEN ReplyTime
        ELSE IF Contains(text_lower, KwWeather) THEN ReplyWeather
        ELSE ReplyDefaultPrefix \o text \o ReplyDefaultSuffix

\* the placeholder branch of get_gemini_response
PlaceholderResponse(text) ==
    LET text_lower == Lower(text)
    IN  IF Contains(text_lower, KwHello) \/ Contains(text_lower, KwHi) THEN ReplyHello
        ELSE IF Contains(text_lower, KwWeather) THEN ReplyWeather
        ELSE IF Contains(text_lower, KwTime) THEN ReplyTime
        ELSE ReplyDefaultPrefix \o text \o ReplyDefaultSuffix

\* variant: a service exception yields an empty reply instead of its message
get_gemini_response_DropsError(text, key, use_api, model_name, svc) ==
    IF UsesPlaceholder(key, use_api)
    THEN [value |-> PlaceholderResponse(text), events |-> << >>, how |-> "placeholder"]
    ELSE [value  |-> IF svc.kind = "text" THEN svc.text ELSE EmptyText,
          events |-> <<[fn |-> "generate_content", arg |-> text, model |-> model_name]>>,
          how    |-> svc.kind]

\* get_gemini_response(text, api_key, use_api, model_name): the text returned
\* and the calls made to the language-model service
get_gemini_response(text, key, use_api, model_name, svc) ==
    IF UsesPlaceholder(key, use_api)
    THEN [value |-> PlaceholderResponse(text), events |-> << >>, how |-> "placeholder"]
    ELSE [value  |-> IF svc.kind = "text" THEN svc.text
                     ELSE MsgGeminiErrorPrefix \o svc.text,
          events |-> <<[fn |-> "generate_content", arg |-> text, model |-> model_name]>>,
          how    |-> svc.kind]

\* text_to_speech_gtts(text): the name returned (None on failure) and the
\* temporary files it created
text_to_speech_gtts(text, env, id) ==
    [file    |-> IF env = "ok" THEN <<id, "mp3">> ELSE None,
     created |-> IF env = "raise_before_file" THEN {} ELSE {<<id, "mp3">>}]

\* text_to_speech_pyttsx3(text)
text_to_speech_pyttsx3(text, env, id) ==
    [file    |-> IF env = "ok" THEN <<id, "wav">> ELSE None,
     created |-> IF env = "raise_before_file" THEN {} ELSE {<<id, "wav">>}]

\* variant: when the selected backend returns None the other one is tried
text_to_speech_WithFallback(method, text, env, id) ==
    LET first  == IF method = GoogleTTS THEN text_to_speech_gtts(text, env, id)
                  ELSE text_to_speech_pyttsx3(text, env, id)
        second == IF method = GoogleTTS THEN text_to_speech_pyttsx3(text, "ok", id)
                  ELSE text_to_speech_gtts(text, "ok", id)
        fn1    == IF method = GoogleTTS THEN "text_to_speech_gtts"
                  ELSE "text_to_speech_pyttsx3"
        fn2    == IF method = GoogleTTS THEN "text_to_speech_pyttsx3"
                  ELSE "text_to_speech_gtts"
    IN  IF first.file # None
        THEN [file |-> first.file, created |-> first.created,
              events |-> <<[fn |-> fn1, arg |-> text]>>]
        ELSE [file |-> second.file, created |-> first.created \cup second.created,
              events |-> <<[fn |-> fn1, arg |-> text], [fn |-> fn2, arg |-> text]>>]

\* the backend dispatch of main(): which functions are called, what they
\* return and what they leave on disk
text_to_speech(method, text, env, id) ==
    IF method = GoogleTTS
    THEN LET r == text_to_speech_gtts(text, env, id)
         IN  [file |-> r.file, created |-> r.created,
              events |-> <<[fn |-> "text_to_speech_gtts", arg |-> text]>>]
    ELSE LET r == text_to_speech_pyttsx3(text, env, id)
         IN  [file |-> r.file, created |-> r.created,
              events |-> <<[fn |-> "text_to_speech_pyttsx3", arg |-> text]>>]

\* -------------------------------------------------------------- actions
Init ==
    /\ pc = "idle"
    /\ transcribed_text = EmptyText
    /\ llm_response = EmptyText
    /\ audio_file = None
    /\ disk = {}
    /\ api_key = <<"k">>
    /\ use_gemini_api = TRUE
    /\ model_choice = DefaultModel
    /\ tts_method = GoogleTTS
    /\ turn = 0
    /\ calls = << >>
    /\ unlink_log = << >>
    /\ reply_turn = 0
    /\ audio_turn = 0
    /\ capture = "none"
    /\ gen = "none"
    /\ synth = "none"
    /\ outcome = "none"

\* the Start Recording button is clicked; the run reads the widgets
StartRecording ==
    /\ pc = "idle"
    /\ turn < MaxTurns
    /\ \E k \in ApiKeys, u \in BOOLEAN, m \in ModelChoices, t \in TtsMethods :
          /\ api_key' = k
          /\ use_gemini_api' = u
          /\ model_choice' = IF u /\ k # EmptyText THEN m ELSE DefaultModel
          /\ tts_method' = t
    /\ pc' = "record"
    /\ turn' = turn + 1
    /\ calls' = << >>
    /\ capture' = "none"
    /\ gen' = "none"
    /\ synth' = "none"
    /\ outcome' = "running"
    /\ UNCHANGED <<transcribed_text, llm_response, audio_file, disk,
                   unlink_log, reply_turn, audio_turn>>

\* step 1: transcribed = record_speech(); the test that guards steps 2 and 3
RecordSpeech ==
    /\ pc = "record"
    /\ \E o \in CaptureOutcomes :
          LET r == record_speech(o)
          IN  /\ capture' = o.kind
              /\ calls' = Append(calls, [fn |-> "record_speech", arg |-> EmptyText])
              /\ IF r.raised
                 THEN /\ pc' = "idle"
                      /\ outcome' = "fault"
                      /\ UNCHANGED transcribed_text
                 ELSE /\ transcribed_text' = r.value
                      /\ IF r.value # EmptyText /\ ~StartsWithFailure(r.value)
                         THEN /\ pc' = "generate"
                              /\ UNCHANGED outcome
                         ELSE /\ pc' = "idle"
                              /\ outcome' = "done"
    /\ UNCHANGED <<llm_response, audio_file, disk, api_key, use_gemini_api,
                   model_choice, tts_method, turn, unlink_log, reply_turn,
                   audio_turn, gen, synth>>

\* step 2: response = get_gemini_response(...)
Generate ==
    /\ pc = "generate"
    /\ \E svc \in ServiceOutcomes :
          LET r == get_gemini_response(transcribed_text, api_key,
                                       use_gemini_api, model_choice, svc)
          IN  /\ llm_response' = r.value
              /\ gen' = r.how
              /\ calls' = Append(calls, [fn |-> "get_gemini_response",
                                         arg |-> transcribed_text]) \o r.events
    /\ reply_turn' = turn
    /\ pc' = "synthesize"
    /\ UNCHANGED <<transcribed_text, audio_file, disk, api_key, use_gemini_api,
                   model_choice, tts_method, turn, unlink_log, audio_turn,
                   capture, synth, outcome>>

\* step 3: audio_file = text_to_speech_...(response)
Synthesize ==
    /\ pc = "synthesize"
    /\ \E env \in SynthOutcomes :
          LET r == text_to_speech(tts_method, llm_response, env, turn)
          IN  /\ disk' = disk \cup r.created
              /\ calls' = calls \o r.events
              /\ IF r.file # None
                 THEN /\ audio_file' = r.file
                      /\ audio_turn' = turn
                      /\ synth' = "ok"
                 ELSE /\ UNCHANGED <<audio_file, audio_turn>>
                      /\ synth' = "failed"
    /\ pc' = "idle"
    /\ outcome' = "done"
    /\ UNCHANGED <<transcribed_text, llm_response, api_key, use_gemini_api,
                   model_choice, tts_method, turn, unlink_log, reply_turn,
                   capture, gen>>

\* variant: the audio_file key is not removed after the unlink
ClearAll_KeepsKey ==
    /\ pc = "idle"
    /\ transcribed_text' = EmptyText
    /\ llm_response' = EmptyText
    /\ IF audio_file # None
       THEN /\ disk' = disk \ {audio_file}
            /\ unlink_log' = Append(unlink_log, audio_file)
       ELSE UNCHANGED <<disk, unlink_log>>
    /\ UNCHANGED audio_file
    /\ reply_turn' = 0
    /\ audio_turn' = 0
    /\ outcome' = "cleared"
    /\ UNCHANGED <<pc, api_key, use_gemini_api, model_choice, tts_method,
                   turn, calls, capture, gen, synth>>

\* the Clear All button
ClearAll ==
    /\ pc = "idle"
    /\ transcribed_text' = EmptyText
    /\ llm_response' = EmptyText
    /\ IF audio_file # None
       THEN /\ disk' = disk \ {audio_file}
            /\ unlink_log' = Append(unlink_log, audio_file)
       ELSE UNCHANGED <<disk, unlink_log>>
    /\ audio_file' = None
    /\ reply_turn' = 0
    /\ audio_turn' = 0
    /\ outcome' = "cleared"
    /\ UNCHANGED <<pc, api_key, use_gemini_api, model_choice, tts_method,
                   turn, calls, capture, gen, synth>>

Next ==
    \/ StartRecording
    \/ RecordSpeech
    \/ Generate
    \/ Synthesize
    \/ ClearAll

Spec ==
    Init /\ [][Next]_vars

\* the turn runs to completion on the thread that handles the click
SpecFair ==
    Spec /\ WF_vars(RecordSpeech \/ Generate \/ Synthesize)

\* get_gemini_response applied to every bounded text under every configuration
InitOffline ==
    /\ pc = "generate"
    /\ transcribed_text \in OfflineTexts
    /\ llm_response = EmptyText
    /\ audio_file = None
    /\ disk = {}
    /\ api_key \in ApiKeys
    /\ use_gemini_api \in BOOLEAN
    /\ model_choice = DefaultModel
    /\ tts_method = GoogleTTS
    /\ turn = 1
    /\ calls = <<[fn |-> "record_speech", arg |-> EmptyText]>>
    /\ unlink_log = << >>
    /\ reply_turn = 0
    /\ audio_turn = 0
    /\ capture = "recognized"
    /\ gen = "none"
    /\ synth = "none"
    /\ outcome = "running"

NextOffline ==
    Generate

SpecOffline ==
    InitOffline /\ [][NextOffline]_vars

\* ------------------------------------------------ what the page presents
\* the audio player is rendered (lines 216-226)
AudioPresented ==
    /\ llm_response # EmptyText
    /\ audio_file # None
    /\ audio_file \in disk

\* ------------------------------------------------------ helper predicates
Called(fn) ==
    \E i \in 1..Len(calls) : calls[i].fn = fn

TtsFns ==
    {"text_to_speech_gtts", "text_to_speech_pyttsx3"}

TtsCalled ==
    \E i \in 1..Len(calls) : calls[i].fn \in TtsFns

TurnOver ==
    pc = "idle" /\ outcome = "done"

TranscriptionFailed ==
    capture \in {"WaitTimeoutError", "UnknownValueError", "RequestError"}

UnlinkCount(f) ==
    Cardinality({i \in 1..Len(unlink_log) : unlink_log[i] = f})

\* ================================================================ claims

\* C1: after any sequence of turns and clears at most one synthesized audio
\* file exists, and it is the one the session state refers to: no file of an
\* earlier turn survives unreferenced.
C1_AtMostOneAudioFile ==
    pc = "idle" => disk \subseteq {audio_file}

\* C2: a turn whose capture/transcription step returns a failure leaves only
\* the failure transcript in the session state (reply empty, no audio), and
\* neither generation nor synthesis was invoked in that turn.
C2_FailureLeavesOnlyTranscript ==
    (TurnOver /\ TranscriptionFailed) =>
        /\ llm_response = EmptyText
        /\ audio_file = None
        /\ ~Called("get_gemini_response")
        /\ ~TtsCalled

\* C3: between user actions the reply and the audio held in the session
\* state (and presented together) come from the same turn.
C3_ReplyAndAudioSameTurn ==
    (pc = "idle" /\ AudioPresented) => reply_turn = audio_turn

\* C4: a turn in which transcription and generation complete but the chosen
\* text-to-speech backend returns None ends with that turn's reply and with
\* no audio held, whatever an earlier turn stored.
C4_SynthesisFailureNoAudio ==
    (TurnOver /\ synth = "failed") =>
        /\ reply_turn = turn
        /\ audio_file = None
        /\ ~AudioPresented

\* C5: Clear All empties transcript, reply and audio, deletes the stored
\* audio's file with exactly one unlink call, and no later step unlinks a
\* file a second time or finds an unlinked file still on disk.
C5_ClearStep ==
    ClearAll =>
        /\ transcribed_text' = EmptyText
        /\ llm_response' = EmptyText
        /\ audio_file' = None
        /\ audio_file # None =>
              /\ audio_file \notin disk'
              /\ Len(unlink_log') = Len(unlink_log) + 1
        /\ audio_file = None => unlink_log' = unlink_log

C5_UnlinkedOnce ==
    \A i \in 1..Len(unlink_log) :
        /\ unlink_log[i] \notin disk
        /\ UnlinkCount(unlink_log[i]) = 1

C6_ShortCircuitIffFailure ==
    TurnOver => (capture = "recognized" <=> Called("get_gemini_response"))

\* C7: in live mode a language-model call that raises becomes the turn's
\* reply text, the selected backend is still invoked on that text in the same
\* turn, and if synthesis succeeds the turn ends with its audio stored.
C7_GenerationFailureIsSpoken ==
    (TurnOver /\ gen = "exception") =>
        /\ \E svc \in ServiceOutcomes :
              /\ svc.kind = "exception"
              /\ llm_response = MsgGeminiErrorPrefix \o svc.text
        /\ reply_turn = turn
        /\ \E i \in 1..Len(calls) :
              /\ calls[i].fn = (IF tts_method = GoogleTTS
                                THEN "text_to_speech_gtts"
                                ELSE "text_to_speech_pyttsx3")
              /\ calls[i].arg = llm_response
        /\ synth = "ok" =>
              /\ audio_file # None
              /\ audio_file \in disk
              /\ audio_turn = turn

C7_Witness ==
    /\ TurnOver
    /\ gen = "exception"
    /\ synth = "ok"
    /\ audio_turn = turn
    /\ StartsWith(llm_response, MsgGeminiErrorPrefix)

\* C8: no failure of capture, transcription, generation or synthesis leaves
\* its function as an exception: no handler ends with an uncaught fault.
C8_NoUncaughtFault ==
    outcome # "fault"

\* C9: in placeholder mode the reply is the one of the four replies selected
\* by case-insensitive substring match with priority greeting > weather >
\* time > default, the default reply contains the input verbatim, and the
\* language-model service is not called.
CaseVariants(c) ==
    {c} \cup {u \in DOMAIN UpperToLower : UpperToLower[u] = c}

Mentions(text, kw) ==
    \E i \in 1..(Len(text) - Len(kw) + 1) :
        \A j \in 1..Len(kw) : text[i + j - 1] \in CaseVariants(kw[j])

FourReplies(text) ==
    <<ReplyHello, ReplyWeather, ReplyTime,
      ReplyDefaultPrefix \o text \o ReplyDefaultSuffix>>

RuleFor(text) ==
    IF Mentions(text, KwHello) \/ Mentions(text, KwHi) THEN 1
    ELSE IF Mentions(text, KwWeather) THEN 2
    ELSE IF Mentions(text, KwTime) THEN 3
    ELSE 4

C9_PlaceholderRules ==
    (pc = "synthesize" /\ gen = "placeholder") =>
        /\ llm_response = FourReplies(transcribed_text)[RuleFor(transcribed_text)]
        /\ Cardinality({r \in 1..4 : FourReplies(transcribed_text)[r] = llm_response}) = 1
        /\ RuleFor(transcribed_text) = 4 => Contains(llm_response, transcribed_text)
        /\ ~Called("generate_content")

C9_PlaceholderOnlyWhenOffline ==
    pc = "synthesize" =>
        (gen = "placeholder" <=> (~use_gemini_api \/ api_key = EmptyText))

\* C9: the placeholder branch is taken exactly when use_api is false or the
\* key is empty, and then the reply follows the four prioritized rules.
C9_OfflineReplies ==
    C9_PlaceholderRules /\ C9_PlaceholderOnlyWhenOffline

C9_Witness ==
    /\ pc = "synthesize"
    /\ gen = "placeholder"
    /\ use_gemini_api
    /\ api_key = EmptyText
    /\ llm_response = ReplyWeather
    /\ Mentions(transcribed_text, KwTime)
    /\ transcribed_text # Lower(transcribed_text)

\* C10: a turn calls capture/transcription, generation and synthesis at most
\* once each and in that order, generation on the turn's transcript and
\* exactly the selected backend on the turn's reply, never retrying or
\* falling back, and a started turn ends.
Rank(fn) ==
    CASE fn = "record_speech"       -> 1
      [] fn = "get_gemini_response" -> 2
      [] fn = "generate_content"    -> 3
      [] OTHER                      -> 4

C10_LinearRun ==
    /\ \A i \in 1..Len(calls), j \in 1..Len(calls) :
          i < j => Rank(calls[i].fn) < Rank(calls[j].fn)
    /\ outcome \in {"running", "done", "fault"} => \A i \in 1..Len(calls) :
          /\ i = 1 => calls[i].fn = "record_speech"
          /\ calls[i].fn = "get_gemini_response" =>
                /\ calls[i].arg = transcribed_text
                /\ i = 2
          /\ calls[i].fn = "generate_content" =>
                /\ calls[i].arg = transcribed_text
                /\ calls[i - 1].fn = "get_gemini_response"
          /\ calls[i].fn \in TtsFns =>
                /\ calls[i].arg = llm_response
                /\ reply_turn = turn
                /\ calls[i].fn = (IF tts_method = GoogleTTS
                                  THEN "text_to_speech_gtts"
                                  ELSE "text_to_speech_pyttsx3")
                /\ Called("get_gemini_response")
    /\ pc = "idle" /\ outcome = "done" /\ Called("get_gemini_response") => TtsCalled

C10_TurnEnds ==
    (pc # "idle") ~> (pc = "idle")

====
